---- MODULE Spec2Model ----
(***************************************************************************)
(* The open-addressing hash table of src/Q3/CWK2Q3.c: linear probing with  *)
(* stride 1, tombstone deletion, load-factor driven resizing.              *)
(*                                                                         *)
(* A key is the text of a C string: the sequence of its character codes    *)
(* (the values `(int) *key` takes, the terminating NUL left out).  A slot  *)
(* of hash_map is a pointer: NULL, the file's `tombstone` pointer, or the  *)
(* pointer the caller passed.  Each is a record of the pointer's kind and  *)
(* the text strcmp reads through it, so that strcmp on a slot and the      *)
(* identity test `hash_map[i] == tombstone` are two different things, as   *)
(* they are in the source.                                                 *)
(***************************************************************************)
EXTENDS Integers, Sequences, FiniteSets, TLC

(***************************************************************************)
(* Bounds of the model.                                                    *)
(***************************************************************************)
\* resize_map is called with new_size in 0..MaxResize
MaxResize == 6
\* number_of_items may fall at most this far below the number of names stored
MaxDeficit == 2
\* hash_function is called directly on tables of 1..MaxHashSize slots
MaxHashSize == 8
\* ... with keys of at most this many characters
MaxKeyLen == 2

(***************************************************************************)
(* Program constants.                                                      *)
(***************************************************************************)
\* #define MAX_LOAD_FACTOR 0.7, as the fraction MAX_LOAD_NUM / MAX_LOAD_DEN
MAX_LOAD_NUM == 7
MAX_LOAD_DEN == 10
\* add_to_map: resize_map(10) on an uninitialised map
DEFAULT_SIZE == 10

\* static const char* tombstone = "tombstone";  the text behind the pointer
TombstoneText == <<116, 111, 109, 98, 115, 116, 111, 110, 101>>

\* The names the callers pass: "A", "E", "B" and a string that reads
\* "tombstone" (held in the caller's own storage, so not the same pointer).
Keys == {<<65>>, <<69>>, <<66>>, TombstoneText}

\* Character codes for direct calls of hash_function: char is signed, so a
\* byte above 127 (0xC3, 0xA9: the UTF-8 of e-acute) reads as a negative int.
HashChars == {-61, -87, 65, 127}

RECURSIVE SeqsUpTo(_, _)
SeqsUpTo(S, n) ==
  IF n = 0 THEN {<<>>}
  ELSE LET shorter == SeqsUpTo(S, n - 1)
       IN  shorter \cup {Append(s, c) : s \in shorter, c \in S}

HashKeys == SeqsUpTo(HashChars, MaxKeyLen)

(***************************************************************************)
(* Slots.                                                                  *)
(***************************************************************************)
NULL == [kind |-> "NULL", text |-> <<>>]
tombstone == [kind |-> "tombstone", text |-> TombstoneText]
NamePtr(name) == [kind |-> "name", text |-> name]

\* The pointer of a string literal in CWK2Q3.c.  The sentinel is itself
\* initialised from the literal "tombstone", and the compiler keeps one copy
\* of identical literals of a translation unit: a literal of main that reads
\* "tombstone" is the sentinel's own pointer.
Literal(name) == IF name = TombstoneText THEN tombstone ELSE NamePtr(name)

\* strcmp(a, b) == 0, on the texts behind two pointers
StrEq(slot, name) == slot.text = name

VARIABLES
  hash_map,         \* static char** hash_map: [0..current_size-1 -> slot]
  current_size,     \* static int current_size
  number_of_items,  \* static int number_of_items
  status,           \* "ok"; "loops" once a call is in a loop it never leaves;
                    \* "fault" once a call has divided by zero
  last,             \* the last call made: operation, arguments, return value
  live,             \* names whose add_to_map returned, not removed since
  seen,             \* what the last call found when it was made: current_size,
                    \* number_of_items, and whether its name was stored
  frame,            \* main of CWK2Q3.c: its five strings and the number of
                    \* its calls that have returned
  head,             \* static ListNode *head of CWK2Q4.c: an address, 0 for NULL
  nodes,            \* the ListNodes on the heap: [address -> [value, npx]]
  redactor,         \* print_with_redactions of CWK2Q5.c at work on a line: the
                    \* text, the redacted words, the passes made
  cipher,           \* encrypt_columnar_from_file of CWK2Q7.c at work: the
                    \* input left to read, the key, the result buffer
  printed           \* what the last call printed, if it was print_map: the
                    \* slot indexes read, in order, and the text for each

vars == <<hash_map, current_size, number_of_items, status, last, live, seen,
          frame, head, nodes, redactor, cipher, printed>>

\* The table as one value, for the operators that transform it.
Table == [map |-> hash_map, size |-> current_size, items |-> number_of_items,
          status |-> "ok"]

(***************************************************************************)
(* int arithmetic.                                                         *)
(***************************************************************************)
\* an int holds INT_MIN..INT_MAX, with INT_MIN = -INT_MAX - 1
INT_MAX == 2147483647

\* a + b in int, wrapping on overflow (two's complement)
AddInt(a, b) ==
  IF b > 0 /\ a > INT_MAX - b THEN ((a - INT_MAX) + (b - INT_MAX)) - 2
  ELSE IF b < 0 /\ a < (-INT_MAX - 1) - b
    THEN ((a + INT_MAX) + (b + INT_MAX)) + 2
  ELSE a + b

\* a % b of C for b > 0: the remainder takes the sign of a
CRem(a, b) == IF a >= 0 THEN a % b ELSE -((-a) % b)

RECURSIVE SumChars(_, _)
\* the while loop of hash_function: sum += ascii_value over the key
SumChars(sum, key) ==
  IF key = <<>> THEN sum
  ELSE SumChars(AddInt(sum, Head(key)), Tail(key))

\* int hash_function(const char *key), current_size passed as size
hash_function(key, size) == CRem(SumChars(0, key), size)

\* static int next_index(int current_index)
next_index(current_index, size) ==
  IF current_index + 1 >= size THEN 0 ELSE current_index + 1

\* ((double) items) / ((double) size) > MAX_LOAD_FACTOR, for size > 0.  The
\* quotient of two ints is nearer to 0.7 than to any other double only when
\* it is 7/10 exactly, so the comparison of doubles is the comparison of the
\* fractions.
LoadExceeded(items, size) == items * MAX_LOAD_DEN > MAX_LOAD_NUM * size

(***************************************************************************)
(* add_to_map_without_resizing                                             *)
(***************************************************************************)
RECURSIVE InsertWalk(_, _, _, _, _)
\* The while loop of add_to_map_without_resizing, `steps` iterations in.
\* The loop changes nothing but index and first_tombstone_index; after
\* t.size iterations it is back at its first index with
\* first_tombstone_index settled, so it never ends.
InsertWalk(t, name, index, first_tombstone_index, steps) ==
  IF steps >= t.size THEN [res |-> "loops", at |-> -1]
  ELSE IF t.map[index] = NULL
    THEN [res |-> "place",
          at |-> IF first_tombstone_index = -1 THEN index
                 ELSE first_tombstone_index]
  ELSE IF StrEq(t.map[index], name) THEN [res |-> "duplicate", at |-> -1]
  ELSE InsertWalk(t, name, next_index(index, t.size),
                  IF first_tombstone_index = -1 /\ t.map[index] = tombstone
                    THEN index ELSE first_tombstone_index,
                  steps + 1)

RECURSIVE WalkToFirstFree(_, _, _, _)
\* the walk of an insert that takes the first tombstone it meets for the end
\* of the chain
WalkToFirstFree(t, name, index, steps) ==
  IF steps >= t.size THEN [res |-> "loops", at |-> -1]
  ELSE IF t.map[index] = NULL \/ t.map[index] = tombstone
    THEN [res |-> "place", at |-> index]
  ELSE IF StrEq(t.map[index], name) THEN [res |-> "duplicate", at |-> -1]
  ELSE WalkToFirstFree(t, name, next_index(index, t.size), steps + 1)

\* add_to_map_without_resizing, were it to stop at the first tombstone
\* instead of walking on to the NULL slot to look for a duplicate
AddStoppingAtTombstone(t, name, pointer) ==
  LET w == WalkToFirstFree(t, name, hash_function(name, t.size), 0)
  IN  CASE w.res = "loops" -> [t EXCEPT !.status = "loops"]
        [] w.res = "duplicate" -> t
        [] OTHER -> [t EXCEPT !.map[w.at] = pointer,
                              !.items = t.items + 1]

\* add_to_map_without_resizing, were it to write the name at its hash index
\* whenever the walk finds no duplicate
AddAtHashIndex(t, name, pointer) ==
  IF t.size = 0 THEN [t EXCEPT !.status = "fault"] ELSE
  LET w == InsertWalk(t, name, hash_function(name, t.size), -1, 0)
  IN  CASE w.res = "loops" -> [t EXCEPT !.status = "loops"]
        [] w.res = "duplicate" -> t
        [] OTHER -> [t EXCEPT !.map[hash_function(name, t.size)] = pointer,
                              !.items = t.items + 1]

\* add_to_map_without_resizing called with `pointer`, whose text is `name`:
\* the walk reads the text, and the slot it settles on receives the pointer
\* itself, hash_map[index] = (char*) name.  hash_function divides by
\* current_size: with no slots the call faults.
AddPointerWithoutResizing(t, name, pointer) ==
  IF t.size = 0 THEN [t EXCEPT !.status = "fault"] ELSE
  LET w == InsertWalk(t, name, hash_function(name, t.size), -1, 0)
  IN  CASE w.res = "loops" -> [t EXCEPT !.status = "loops"]
        [] w.res = "duplicate" -> t
        [] OTHER -> [t EXCEPT !.map[w.at] = pointer,
                              !.items = t.items + 1]

\* add_to_map_without_resizing on a string in storage of its own: a caller's
\* array, or a name that resize_map copies over from the old array
add_to_map_without_resizing(t, name) ==
  AddPointerWithoutResizing(t, name, NamePtr(name))

(***************************************************************************)
(* resize_map                                                              *)
(***************************************************************************)
\* the test of resize_map's early return, were it to leave out the load
\* factor
RejectedBelowOneOnly(t, new_size) == new_size < 1

\* the test of resize_map's early return, were it to let a size of 0 through
RejectedBelowZero(t, new_size) ==
  new_size < 0 \/ (new_size > 0 /\ LoadExceeded(t.items, new_size))

\* the test of resize_map's early return
ResizeRejected(t, new_size) ==
  new_size < 1 \/ LoadExceeded(t.items, new_size)

RECURSIVE CopyOver(_, _, _, _)
\* the for loop of resize_map over the old array, from index i on
CopyOver(t, old_map, old_size, i) ==
  IF i >= old_size \/ t.status # "ok" THEN t
  ELSE CopyOver(IF old_map[i] # NULL /\ old_map[i] # tombstone
                  THEN add_to_map_without_resizing(t, old_map[i].text)
                  ELSE t,
                old_map, old_size, i + 1)

\* resize_map, were it to leave number_of_items as it is before the copy
ResizeKeepingCount(t, new_size) ==
  IF ResizeRejected(t, new_size) THEN t
  ELSE CopyOver([map |-> [i \in 0..(new_size - 1) |-> NULL],
                 size |-> new_size, items |-> t.items, status |-> "ok"],
                t.map, t.size, 0)

\* resize_map, were the copy to end with the load test of add_to_map and a
\* second resize
ResizeThenGrow(t, new_size) ==
  IF ResizeRejected(t, new_size) THEN t
  ELSE LET r == CopyOver([map |-> [i \in 0..(new_size - 1) |-> NULL],
                          size |-> new_size, items |-> 0, status |-> "ok"],
                         t.map, t.size, 0)
       IN  IF r.status = "ok" /\ LoadExceeded(r.items, r.size)
             THEN CopyOver([map |-> [i \in 0..(2 * r.size - 1) |-> NULL],
                            size |-> 2 * r.size, items |-> 0, status |-> "ok"],
                           r.map, r.size, 0)
             ELSE r

resize_map(t, new_size) ==
  IF ResizeRejected(t, new_size) THEN t
  ELSE CopyOver([map |-> [i \in 0..(new_size - 1) |-> NULL],
                 size |-> new_size, items |-> 0, status |-> "ok"],
                t.map, t.size, 0)

(***************************************************************************)
(* add_to_map                                                              *)
(***************************************************************************)
\* add_to_map, were it to leave out the resize_map(10) of an uninitialised map
AddWithoutDefaultSize(t, name, pointer) ==
  LET t2 == AddPointerWithoutResizing(t, name, pointer)
  IN  IF t2.status # "ok" THEN t2
      ELSE IF LoadExceeded(t2.items, t2.size)
        THEN resize_map(t2, t2.size * 2)
      ELSE t2

\* add_to_map called with `pointer`, whose text is `name`
AddPointer(t, name, pointer) ==
  LET t1 == IF t.size = 0 THEN resize_map(t, DEFAULT_SIZE) ELSE t
      t2 == AddPointerWithoutResizing(t1, name, pointer)
  IN  IF t2.status # "ok" THEN t2
      ELSE IF LoadExceeded(t2.items, t2.size)
        THEN resize_map(t2, t2.size * 2)
      ELSE t2

\* add_to_map on a string in storage of its own
add_to_map(t, name) == AddPointer(t, name, NamePtr(name))

(***************************************************************************)
(* index_of, search_map, remove_from_map                                   *)
(***************************************************************************)
\* index_of's answer for a loop that never ends
LOOPS == -2
\* index_of's answer when hash_function divides by a current_size of 0
FAULT == -3

RECURSIVE IndexWalk(_, _, _, _)
\* The for loop of index_of, `steps` iterations in; it changes nothing but
\* index, so after t.size iterations without a return it never ends.
IndexWalk(t, name, index, steps) ==
  IF steps >= t.size THEN LOOPS
  ELSE IF t.map[index] = NULL THEN -1
  ELSE IF StrEq(t.map[index], name) THEN index
  ELSE IndexWalk(t, name, next_index(index, t.size), steps + 1)

index_of(t, name) ==
  IF t.size = 0 THEN FAULT
  ELSE IndexWalk(t, name, hash_function(name, t.size), 0)

\* how a call of index_of ends
Outcome(index) ==
  IF index = LOOPS THEN "loops" ELSE IF index = FAULT THEN "fault" ELSE "ok"

\* the value search_map returns, when index_of returns
search_map(t, name) == IF index_of(t, name) = -1 THEN 0 ELSE 1

\* remove_from_map, were it to write NULL where it writes the tombstone
RemoveLeavingNull(t, name) ==
  LET removed_index == index_of(t, name)
  IN  IF removed_index = -1 THEN t
      ELSE [t EXCEPT !.map[removed_index] = NULL,
                     !.items = t.items - 1]

\* the table remove_from_map leaves, when index_of returns
remove_from_map(t, name) ==
  LET removed_index == index_of(t, name)
  IN  IF removed_index = -1 THEN t
      ELSE [t EXCEPT !.map[removed_index] = tombstone,
                     !.items = t.items - 1]

(***************************************************************************)
(* print_map                                                               *)
(***************************************************************************)
\* "[TOMBSTONE]"
TombstonePrinted == <<91, 84, 79, 77, 66, 83, 84, 79, 78, 69, 93>>

\* what print_value_at_index writes for the slot: nothing for NULL
print_value_at_index(map, index) ==
  IF map[index] = NULL THEN <<>>
  ELSE IF map[index] = tombstone THEN TombstonePrinted
  ELSE map[index].text

\* the indexes of hash_map that print_map reads, in order: i of the loop
\* while i < current_size - 1, then current_size - 1
ScanReads(size) == [i \in 1..(size - 1) |-> i - 1] \o <<size - 1>>

\* the indexes read and the text written for each slot; with no table
\* hash_map is NULL and the read of index -1 ends the call
print_map(t) ==
  [reads  |-> ScanReads(t.size),
   output |-> IF t.size = 0 THEN <<>>
              ELSE [i \in 1..t.size |-> print_value_at_index(t.map, i - 1)]]

(***************************************************************************)
(* The calls.                                                              *)
(***************************************************************************)
\* the slots that hold a name
Occupied(map) ==
  {i \in DOMAIN map : map[i] # NULL /\ map[i] # tombstone}

Call(op, key, n, ret) == [op |-> op, key |-> key, n |-> n, ret |-> ret]

\* the table as a call with argument name finds it
Seen(name) ==
  [size |-> current_size, items |-> number_of_items,
   held |-> \E i \in Occupied(hash_map) : hash_map[i].text = name]

Install(t) ==
  /\ hash_map' = t.map
  /\ current_size' = t.size
  /\ number_of_items' = t.items
  /\ status' = t.status

\* nothing has been printed
NoPrint == [reads |-> <<>>, output |-> <<>>]

\* the statics of both files as the loader leaves them
Statics ==
  /\ printed = NoPrint
  /\ hash_map = <<>>
  /\ current_size = 0
  /\ number_of_items = 0
  /\ status = "ok"
  /\ last = Call("none", <<>>, 0, 0)
  /\ live = {}
  /\ seen = Seen(<<>>)
  /\ head = 0
  /\ nodes = <<>>

\* no main is running: the calls come from any caller
NoFrame == [pc |-> 0, strings |-> <<>>]

\* no line is being redacted
NoLine ==
  [text |-> <<>>, original |-> <<>>, redacted_words |-> <<>>, outside |-> 0,
   passes |-> 0, reads |-> {}, status |-> "ok"]

\* no message is being encrypted
NoMessage == [input |-> <<>>, key |-> <<>>, phase |-> "none"]

Init ==
  /\ Statics
  /\ frame = NoFrame
  /\ redactor = NoLine
  /\ cipher = NoMessage

Resize(n) ==
  /\ status = "ok"
  /\ Install(resize_map(Table, n))
  /\ last' = Call("resize", <<>>, n, 0)
  /\ seen' = Seen(<<>>)
  /\ UNCHANGED live

Insert(name) ==
  /\ status = "ok"
  /\ LET t == add_to_map(Table, name)
     IN  /\ Install(t)
         /\ live' = IF t.status = "ok" THEN live \cup {name} ELSE live
  /\ last' = Call("insert", name, 0, 0)
  /\ seen' = Seen(name)

\* add_to_map called by main, whose arguments are string literals
InsertLiteral(name) ==
  /\ status = "ok"
  /\ LET t == AddPointer(Table, name, Literal(name))
     IN  /\ Install(t)
         /\ live' = IF t.status = "ok" THEN live \cup {name} ELSE live
  /\ last' = Call("insert", name, 0, 0)
  /\ seen' = Seen(name)

Delete(name) ==
  /\ status = "ok"
  /\ seen' = Seen(name)
  /\ LET removed_index == index_of(Table, name)
         t == remove_from_map(Table, name)
     IN  IF Outcome(removed_index) # "ok"
           THEN /\ status' = Outcome(removed_index)
                /\ last' = Call("delete", name, 0, 0)
                /\ UNCHANGED <<hash_map, current_size, number_of_items, live>>
           ELSE /\ Cardinality(Occupied(t.map)) - t.items <= MaxDeficit
                /\ Install(t)
                /\ last' = Call("delete", name, 0,
                                IF removed_index = -1 THEN 0 ELSE 1)
                /\ live' = live \ {name}

\* search_map, were it to put the tombstone where it finds the name
SearchLeavingTombstone(name) ==
  /\ status = "ok"
  /\ seen' = Seen(name)
  /\ LET index == index_of(Table, name)
     IN  /\ status' = Outcome(index)
         /\ last' = Call("search", name, 0,
                         IF Outcome(index) = "ok"
                           THEN search_map(Table, name) ELSE 0)
         /\ hash_map' = IF index >= 0
                          THEN [hash_map EXCEPT ![index] = tombstone]
                          ELSE hash_map
  /\ UNCHANGED <<current_size, number_of_items, live>>

Search(name) ==
  /\ status = "ok"
  /\ seen' = Seen(name)
  /\ LET index == index_of(Table, name)
     IN  /\ status' = Outcome(index)
         /\ last' = Call("search", name, 0,
                         IF Outcome(index) = "ok"
                           THEN search_map(Table, name) ELSE 0)
  /\ UNCHANGED <<hash_map, current_size, number_of_items, live>>

\* a direct call of hash_function, which the header declares to every caller
HashCall(key) ==
  /\ status = "ok"
  /\ seen' = Seen(key)
  /\ status' = IF current_size = 0 THEN "fault" ELSE "ok"
  /\ last' = Call("hash", key, 0,
                  IF current_size = 0 THEN 0
                  ELSE hash_function(key, current_size))
  /\ UNCHANGED <<hash_map, current_size, number_of_items, live>>

PrintMap ==
  /\ status = "ok"
  /\ seen' = Seen(<<>>)
  /\ printed' = print_map(Table)
  /\ status' = IF current_size = 0 THEN "fault" ELSE "ok"
  /\ last' = Call("print", <<>>, 0, 0)
  /\ UNCHANGED <<hash_map, current_size, number_of_items, live>>

Next ==
  \/ \E n \in 0..MaxResize : Resize(n) /\ UNCHANGED <<frame, head, nodes, redactor, cipher, printed>>
  \/ \E name \in Keys : Insert(name) /\ UNCHANGED <<frame, head, nodes, redactor, cipher, printed>>
  \/ \E name \in Keys : Delete(name) /\ UNCHANGED <<frame, head, nodes, redactor, cipher, printed>>
  \/ \E name \in Keys : Search(name) /\ UNCHANGED <<frame, head, nodes, redactor, cipher, printed>>

Spec == Init /\ [][Next]_vars

\* hash_function called on tables of every size, with keys of every
\* character code
NextHash ==
  \/ \E n \in 0..MaxHashSize : Resize(n) /\ UNCHANGED <<frame, head, nodes, redactor, cipher, printed>>
  \/ \E key \in HashKeys : HashCall(key) /\ UNCHANGED <<frame, head, nodes, redactor, cipher, printed>>

SpecHash == Init /\ [][NextHash]_vars

\* what the other calls leave apart from the table: they print nothing
Silent ==
  /\ printed' = NoPrint
  /\ UNCHANGED <<frame, head, nodes, redactor, cipher>>

\* the calls of the interface, print_map among them
NextPrint ==
  \/ \E n \in 0..MaxResize : Resize(n) /\ Silent
  \/ \E name \in Keys : Insert(name) /\ Silent
  \/ \E name \in Keys : Delete(name) /\ Silent
  \/ \E name \in Keys : Search(name) /\ Silent
  \/ PrintMap /\ UNCHANGED <<frame, head, nodes, redactor, cipher>>

SpecPrint == Init /\ [][NextPrint]_vars

(***************************************************************************)
(* main of CWK2Q3.c, run on any five distinct strings.                     *)
(***************************************************************************)
\* the strings main may hold: at 6 slots three of them hash to 3 and two to
\* 5, at 12 slots two hash to 3
\* main passes string literals, so a string that reads "tombstone" is the
\* sentinel's own pointer (Literal)
MainKeys == Keys \cup {<<75>>, <<71>>}

\* the calls of main in program order
Program(strings) ==
  << Call("resize", <<>>, 6, 0),
     Call("insert", strings[1], 0, 0),
     Call("insert", strings[2], 0, 0),
     Call("insert", strings[1], 0, 0),
     Call("insert", strings[3], 0, 0),
     Call("insert", strings[4], 0, 0),
     Call("insert", strings[5], 0, 0),
     Call("print", <<>>, 0, 0),
     Call("search", strings[1], 0, 0),
     Call("delete", strings[3], 0, 0),
     Call("search", strings[5], 0, 0),
     Call("print", <<>>, 0, 0),
     Call("insert", strings[3], 0, 0),
     Call("print", <<>>, 0, 0),
     Call("free", <<>>, 0, 0) >>

\* the call main makes next
NextCall ==
  IF frame.pc < Len(Program(frame.strings))
    THEN Program(frame.strings)[frame.pc + 1]
    ELSE Call("return", <<>>, 0, 0)

Returned == frame' = [frame EXCEPT !.pc = @ + 1]

MainResize ==
  /\ NextCall.op = "resize"
  /\ Resize(NextCall.n)
  /\ Returned
  /\ printed' = NoPrint
  /\ UNCHANGED <<head, nodes, redactor, cipher>>

MainInsert ==
  /\ NextCall.op = "insert"
  /\ InsertLiteral(NextCall.key)
  /\ Returned
  /\ printed' = NoPrint
  /\ UNCHANGED <<head, nodes, redactor, cipher>>

MainSearch ==
  /\ NextCall.op = "search"
  /\ Search(NextCall.key)
  /\ Returned
  /\ printed' = NoPrint
  /\ UNCHANGED <<head, nodes, redactor, cipher>>

MainDelete ==
  /\ NextCall.op = "delete"
  /\ Delete(NextCall.key)
  /\ Returned
  /\ printed' = NoPrint
  /\ UNCHANGED <<head, nodes, redactor, cipher>>

MainPrint ==
  /\ NextCall.op = "print"
  /\ PrintMap
  /\ Returned
  /\ UNCHANGED <<head, nodes, redactor, cipher>>

\* free(hash_map); hash_map = NULL;
MainFree ==
  /\ NextCall.op = "free"
  /\ status = "ok"
  /\ hash_map' = <<>>
  /\ last' = NextCall
  /\ Returned
  /\ printed' = NoPrint
  /\ UNCHANGED <<current_size, number_of_items, status, live, seen,
                 head, nodes, redactor, cipher>>

InitMain ==
  /\ Statics
  /\ \E strings \in [1..5 -> MainKeys] :
       /\ \A i, j \in 1..5 : strings[i] = strings[j] => i = j
       /\ frame = [pc |-> 0, strings |-> strings]
  /\ redactor = NoLine
  /\ cipher = NoMessage

NextMain ==
  \/ MainResize
  \/ MainInsert
  \/ MainSearch
  \/ MainDelete
  \/ MainPrint
  \/ MainFree

SpecMain == InitMain /\ [][NextMain]_vars

(***************************************************************************)
(* The XOR linked list of src/Q4/CWK2Q4.c.                                 *)
(*                                                                         *)
(* A pointer to a ListNode is its address, a positive number, and NULL is  *)
(* 0.  nodes holds the nodes that are allocated; free(node) takes the node *)
(* out of it, and malloc returns any address not in it, or NULL.           *)
(* A value is the text of the string the caller passed.                    *)
(***************************************************************************)
\* a list holds at most MaxNodes nodes when an insertion is called
MaxNodes == 3

\* the addresses malloc may return
Addresses == 1..(MaxNodes + 1)

\* the strings the callers pass
ListValues == {<<65>>, <<66>>}

\* the list as one value, for the operators that transform it
List == [head |-> head, nodes |-> nodes, status |-> "ok"]

\* (uintptr_t) value1 ^ (uintptr_t) value2
RECURSIVE xor(_, _)
xor(value1, value2) ==
  IF value1 = 0 /\ value2 = 0 THEN 0
  ELSE (((value1 % 2) + (value2 % 2)) % 2)
         + (2 * xor(value1 \div 2, value2 \div 2))

next_node(ns, previous, current) == xor(previous, ns[current].npx)

previous_node(ns, current, next) == xor(ns[current].npx, next)

\* what find leaves in *position, and what it returns
Position(found, node, preceding, proceeding) ==
  [found |-> found, wild |-> "ok", node |-> node,
   preceding_node |-> preceding, proceeding_node |-> proceeding]

\* the walk of find arrives at memory that holds no node
Astray(how) ==
  [found |-> FALSE, wild |-> how, node |-> 0,
   preceding_node |-> 0, proceeding_node |-> 0]

\* what malloc(sizeof(NodePosition)) may return: NULL, or a block that is
\* freed before the call returns
PositionBlocks == {0, 1}

RECURSIVE FindWalk(_, _, _, _, _)
\* The while loop of find; block is what malloc returns for *position
\* when the value is found.  With NULL, find returns false and leaves
\* *position NULL although the value is in the list.  The loop ends on every
\* list, whatever the npx fields hold: (previous, current) ->
\* (current, previous XOR current->npx) is one-to-one and nothing leads back
\* to (NULL, head), so no pair comes twice.
FindWalk(l, value, current, previous, block) ==
  IF current = 0 THEN Position(FALSE, 0, 0, 0)
  ELSE IF current \notin DOMAIN l.nodes THEN Astray("wild")
  ELSE LET next == next_node(l.nodes, previous, current)
       IN  IF l.nodes[current].value = value
             THEN IF block = 0 THEN Position(FALSE, 0, 0, 0)
                  ELSE Position(TRUE, current, previous, next)
             ELSE FindWalk(l, value, next, current, block)

find(l, value, block) == FindWalk(l, value, l.head, 0, block)

\* `address` is not NULL and holds no node: a read or write through it is
\* undefined
Stray(ns, address) == address # 0 /\ address \notin DOMAIN ns

\* What a build makes of the undefined accesses of one call, each on its
\* own: the write of before->npx, the write of after->npx and free(node).
\* With TRUE the access traps (SIGSEGV, or the abort of free) and the call
\* ends there with what it had written so far; with FALSE it lands in memory
\* outside every node and the call goes on.
Traps == [before : BOOLEAN, after : BOOLEAN, node : BOOLEAN]

\* insert_between_nodes, were it to leave the npx of the node after as it is
InsertFixingBeforeOnly(l, before, value, after, new_node, traps) ==
  IF new_node = 0 THEN l
  ELSE
  LET n1 == (new_node :> [value |-> value, npx |-> xor(before, after)])
              @@ l.nodes
      n2 == IF before # 0 /\ before \in DOMAIN n1
              THEN [n1 EXCEPT ![before].npx = xor(xor(@, after), new_node)]
              ELSE n1
  IN  IF traps.before /\ Stray(n1, before)
        THEN [l EXCEPT !.nodes = n1, !.status = "wild"]
      ELSE [l EXCEPT !.nodes = n2,
                     !.head = IF after = l.head THEN new_node ELSE l.head]

\* new_node is what malloc returned: with NULL the function returns at once.
\* The statements run in the order of the source: the new node is written,
\* then before->npx, then after->npx, then head.
insert_between_nodes(l, before, value, after, new_node, traps) ==
  IF new_node = 0 THEN l
  ELSE
  LET n1 == (new_node :> [value |-> value, npx |-> xor(before, after)])
              @@ l.nodes
      n2 == IF before # 0 /\ before \in DOMAIN n1
              THEN [n1 EXCEPT ![before].npx = xor(xor(@, after), new_node)]
              ELSE n1
      n3 == IF after # 0 /\ after \in DOMAIN n2
              THEN [n2 EXCEPT ![after].npx = xor(xor(@, before), new_node)]
              ELSE n2
  IN  IF traps.before /\ Stray(n1, before)
        THEN [l EXCEPT !.nodes = n1, !.status = "wild"]
      ELSE IF traps.after /\ Stray(n2, after)
        THEN [l EXCEPT !.nodes = n2, !.status = "wild"]
      ELSE [l EXCEPT !.nodes = n3,
                     !.head = IF after = l.head THEN new_node ELSE l.head]

\* what a call returns: the list, the return value, the text copied to result
Returns(l, ret, result) == [l |-> l, ret |-> ret, result |-> result]

\* return 1 follows the call of insert_between_nodes whether or not it
\* inserted
insert_before(l, before, new_value, block, new_node, traps) ==
  LET position == find(l, before, block)
  IN  IF position.wild # "ok"
        THEN Returns([l EXCEPT !.status = position.wild], 0, <<>>)
      ELSE IF ~position.found THEN Returns(l, 0, <<>>)
      ELSE Returns(insert_between_nodes(l, position.preceding_node, new_value,
                                        position.node, new_node, traps),
                   1, <<>>)

insert_after(l, after, new_value, block, new_node, traps) ==
  LET position == find(l, after, block)
  IN  IF position.wild # "ok"
        THEN Returns([l EXCEPT !.status = position.wild], 0, <<>>)
      ELSE IF ~position.found THEN Returns(l, 0, <<>>)
      ELSE Returns(insert_between_nodes(l, position.node, new_value,
                                        position.proceeding_node, new_node,
                                        traps),
                   1, <<>>)

insert_string(l, new_value, new_node, traps) ==
  Returns(insert_between_nodes(l, 0, new_value, l.head, new_node, traps),
          0, <<>>)

\* free(node)
Free(ns, node) ==
  IF DOMAIN ns = {node} THEN <<>>
  ELSE [a \in DOMAIN ns \ {node} |-> ns[a]]

\* The statements run in the order of the source: before->npx, after->npx,
\* head, free(node).  free(NULL) does nothing; free of a stray address is
\* undefined like a write through it.
remove_node(l, before, node, after, traps) ==
  LET n1 == IF before # 0 /\ before \in DOMAIN l.nodes
              THEN [l.nodes EXCEPT ![before].npx = xor(xor(@, node), after)]
              ELSE l.nodes
      n2 == IF after # 0 /\ after \in DOMAIN n1
              THEN [n1 EXCEPT ![after].npx = xor(before, xor(node, @))]
              ELSE n1
      h == IF node = l.head THEN after ELSE l.head
  IN  IF traps.before /\ Stray(l.nodes, before)
        THEN [l EXCEPT !.status = "wild"]
      ELSE IF traps.after /\ Stray(n1, after)
        THEN [l EXCEPT !.nodes = n1, !.status = "wild"]
      ELSE IF traps.node /\ Stray(n2, node)
        THEN [l EXCEPT !.nodes = n2, !.head = h, !.status = "wild"]
      ELSE [l EXCEPT !.nodes = Free(n2, node), !.head = h]

remove_string(l, value, block, traps) ==
  LET position == find(l, value, block)
  IN  IF position.wild # "ok"
        THEN Returns([l EXCEPT !.status = position.wild], 0, <<>>)
      ELSE IF ~position.found THEN Returns(l, 0, <<>>)
      ELSE Returns(remove_node(l, position.preceding_node, position.node,
                               position.proceeding_node, traps), 1, <<>>)

remove_after(l, after, block, traps) ==
  LET position == find(l, after, block)
  IN  IF position.wild # "ok"
        THEN Returns([l EXCEPT !.status = position.wild], 0, <<>>)
      ELSE IF ~position.found \/ position.proceeding_node = 0
        THEN Returns(l, 0, <<>>)
      ELSE IF position.proceeding_node \notin DOMAIN l.nodes
        THEN Returns([l EXCEPT !.status = "wild"], 0, <<>>)
      ELSE
      LET preceding_node == position.node
          node_to_remove == position.proceeding_node
          proceeding_node == next_node(l.nodes, preceding_node, node_to_remove)
      IN  Returns(remove_node(l, preceding_node, node_to_remove,
                              proceeding_node, traps),
                  1, l.nodes[node_to_remove].value)

remove_before(l, before, block, traps) ==
  LET position == find(l, before, block)
  IN  IF position.wild # "ok"
        THEN Returns([l EXCEPT !.status = position.wild], 0, <<>>)
      ELSE IF ~position.found \/ position.preceding_node = 0
        THEN Returns(l, 0, <<>>)
      ELSE
      LET proceeding_node == position.node
          node_to_remove == position.preceding_node
          preceding_node == previous_node(l.nodes, node_to_remove,
                                          proceeding_node)
      IN  Returns(remove_node(l, preceding_node, node_to_remove,
                              proceeding_node, traps),
                  1, l.nodes[node_to_remove].value)

\* the value print_list prints for memory that holds no node, and for a walk
\* that never ends
Garbage == <<-1>>

\* the values print_list prints, in order
RECURSIVE PrintWalk(_, _, _)
PrintWalk(ns, preceding_node, current_node) ==
  IF current_node = 0 THEN <<>>
  ELSE IF current_node \notin DOMAIN ns THEN <<Garbage>>
  ELSE <<ns[current_node].value>>
         \o PrintWalk(ns, current_node,
                      next_node(ns, preceding_node, current_node))

print_list(h, ns) == PrintWalk(ns, 0, h)

\* the addresses the walk of print_list visits, in order; -1 for memory that
\* holds no node
RECURSIVE Visited(_, _, _)
Visited(ns, preceding_node, current_node) ==
  IF current_node = 0 THEN <<>>
  ELSE IF current_node \notin DOMAIN ns THEN <<-1>>
  ELSE <<current_node>>
         \o Visited(ns, current_node,
                    next_node(ns, preceding_node, current_node))

(***************************************************************************)
(* The calls of the list.                                                  *)
(***************************************************************************)
ListCall(op, target, value, ret, result) ==
  [op |-> op, target |-> target, value |-> value, ret |-> ret,
   result |-> result]

\* what malloc(sizeof(ListNode)) may return now: NULL, or an address in no
\* use
Unused == {0} \cup (Addresses \ DOMAIN nodes)

\* the list is short enough for an insertion to be called
Room == Cardinality(DOMAIN nodes) < MaxNodes

Link(r) ==
  /\ head' = r.l.head
  /\ nodes' = r.l.nodes
  /\ status' = r.l.status
  /\ UNCHANGED <<hash_map, current_size, number_of_items, live, seen, frame,
                 redactor, cipher, printed>>

InsertString(new_value, new_node, traps) ==
  /\ status = "ok"
  /\ Room
  /\ Link(insert_string(List, new_value, new_node, traps))
  /\ last' = ListCall("insert_string", <<>>, new_value, 0, <<>>)

InsertBefore(before, new_value, block, new_node, traps) ==
  /\ status = "ok"
  /\ Room
  /\ LET r == insert_before(List, before, new_value, block, new_node,
                            traps)
     IN  /\ Link(r)
         /\ last' = ListCall("insert_before", before, new_value, r.ret, <<>>)

InsertAfter(after, new_value, block, new_node, traps) ==
  /\ status = "ok"
  /\ Room
  /\ LET r == insert_after(List, after, new_value, block, new_node, traps)
     IN  /\ Link(r)
         /\ last' = ListCall("insert_after", after, new_value, r.ret, <<>>)

RemoveString(value, block, traps) ==
  /\ status = "ok"
  /\ LET r == remove_string(List, value, block, traps)
     IN  /\ Link(r)
         /\ last' = ListCall("remove_string", value, <<>>, r.ret, <<>>)

RemoveAfter(after, block, traps) ==
  /\ status = "ok"
  /\ LET r == remove_after(List, after, block, traps)
     IN  /\ Link(r)
         /\ last' = ListCall("remove_after", after, <<>>, r.ret, r.result)

RemoveBefore(before, block, traps) ==
  /\ status = "ok"
  /\ LET r == remove_before(List, before, block, traps)
     IN  /\ Link(r)
         /\ last' = ListCall("remove_before", before, <<>>, r.ret, r.result)

NextList ==
  \/ \E new_value \in ListValues, new_node \in Unused, traps \in Traps :
       InsertString(new_value, new_node, traps)
  \/ \E before, new_value \in ListValues, block \in PositionBlocks,
        new_node \in Unused, traps \in Traps :
       InsertBefore(before, new_value, block, new_node, traps)
  \/ \E after, new_value \in ListValues, block \in PositionBlocks,
        new_node \in Unused, traps \in Traps :
       InsertAfter(after, new_value, block, new_node, traps)
  \/ \E value \in ListValues, block \in PositionBlocks, traps \in Traps :
       RemoveString(value, block, traps)
  \/ \E after \in ListValues, block \in PositionBlocks, traps \in Traps :
       RemoveAfter(after, block, traps)
  \/ \E before \in ListValues, block \in PositionBlocks, traps \in Traps :
       RemoveBefore(before, block, traps)

SpecList == Init /\ [][NextList]_vars

(***************************************************************************)
(* The redactor of CWK2Q5.c.  A string is the sequence of its chars before *)
(* the NUL, a char is its signed value, and an index into the text counts  *)
(* from 0 as in the source.                                                *)
(***************************************************************************)
\* the longest line redacted
MaxText == 4

\* the most redacted words read from the redaction file
MaxWords == 2

\* the chars of the lines: 't', 'T', 'o' and a space
TextChars == {116, 84, 111, 32}

\* the lines of the redaction file: "to", "T", "o" and the phrase "o t"
RedactionWords == {<<116, 111>>, <<84>>, <<111>>, <<111, 32, 116>>}

\* the byte in front of the line buffer, which is not the program's to read:
\* a zero or a letter
OutsideBytes == {0, 116}

to_lower_case(char1) ==
  IF char1 >= 65 /\ char1 <= 90 THEN char1 - (65 - 97) ELSE char1

is_alphabetic(character) ==
  LET lower_case_char == to_lower_case(character)
  IN  lower_case_char >= 97 /\ lower_case_char <= 122

matches_ignore_case(char1, char2) ==
  IF char1 = char2 THEN TRUE ELSE to_lower_case(char1) = to_lower_case(char2)

string_length(string) == Len(string)

\* text[index]: the NUL at the end of the text, and at index - 1 (SIZE_MAX
\* as a size_t) the byte in front of the buffer
CharAt(text, index, outside) ==
  IF index \in 0..(Len(text) - 1) THEN text[index + 1]
  ELSE IF index = Len(text) THEN 0
  ELSE outside

\* index is a size_t, so index < 0 is never true
is_word_separator(text, index, outside) ==
  ~is_alphabetic(CharAt(text, index, outside))

RECURSIVE MatchLoop(_, _, _, _, _, _)
\* the while loop of matches_whole_word_at_index, and its return
MatchLoop(word, text, start_index, word_index, reads, outside) ==
  LET index == word_index + start_index
  IN  IF word_index >= Len(word)
      THEN [matches |-> is_word_separator(text, index, outside),
            reads   |-> reads \cup {index}]
      ELSE IF ~matches_ignore_case(word[word_index + 1],
                                   CharAt(text, index, outside))
      THEN [matches |-> FALSE, reads |-> reads \cup {index}]
      ELSE MatchLoop(word, text, start_index, word_index + 1,
                     reads \cup {index}, outside)

\* whether it matches, and the indexes of the text it read
matches_whole_word_at_index(word, text, start_index, outside) ==
  IF ~is_word_separator(text, start_index - 1, outside)
  THEN [matches |-> FALSE, reads |-> {start_index - 1}]
  ELSE MatchLoop(word, text, start_index, 0, {start_index - 1}, outside)

redact_chars(text, start_index, redacted_chars) ==
  [i \in 1..Len(text) |->
     IF (i - 1) \in start_index..(start_index + redacted_chars - 1)
     THEN 42 ELSE text[i]]

RECURSIVE RedactLoop(_, _, _, _, _)
\* the while loop of redact from text_index on
RedactLoop(line, redacted_word, text_length, text_index, outside) ==
  IF text_index >= text_length THEN line
  ELSE LET match == matches_whole_word_at_index(redacted_word, line.text,
                                                text_index, outside)
           reads == line.reads \cup match.reads
           redacted_word_length == string_length(redacted_word)
       IN  IF match.matches
           THEN RedactLoop([text  |-> redact_chars(line.text, text_index,
                                                   redacted_word_length),
                            reads |-> reads],
                           redacted_word, text_length,
                           text_index + redacted_word_length, outside)
           ELSE RedactLoop([text |-> line.text, reads |-> reads],
                           redacted_word, text_length, text_index + 1,
                           outside)

redact(line, redacted_word, outside) ==
  RedactLoop(line, redacted_word, string_length(line.text), 0, outside)

RECURSIVE redact_all(_, _, _, _)
\* the words from the i-th on, one after the other
redact_all(line, redacted_words, i, outside) ==
  IF i > Len(redacted_words) THEN line
  ELSE redact_all(redact(line, redacted_words[i], outside),
                  redacted_words, i + 1, outside)

RECURSIVE print_with_redactions(_, _, _, _)
\* the line written out: as many passes of redact_all as there are words
print_with_redactions(line, redacted_words, i, outside) ==
  IF i > Len(redacted_words) THEN line
  ELSE print_with_redactions(redact_all(line, redacted_words, 1, outside),
                             redacted_words, i + 1, outside)

\* the word lists get_redacted_words can return: sort_by_length_desc has
\* put the longest first
get_redacted_words ==
  {words \in UNION {[1..n -> RedactionWords] : n \in 0..MaxWords} :
     \A i \in 1..Len(words) : \A j \in i..Len(words) :
        Len(words[i]) >= Len(words[j])}

\* the lines read_line can return: at least one char
read_line == UNION {[1..n -> TextChars] : n \in 1..MaxText}

\* redact_words has read the words and a line of the text
InitRedact ==
  /\ Statics
  /\ frame = NoFrame
  /\ cipher = NoMessage
  /\ \E text \in read_line, words \in get_redacted_words,
        outside \in OutsideBytes :
       redactor = [text |-> text, original |-> text,
                   redacted_words |-> words, outside |-> outside,
                   passes |-> 0, reads |-> {}, status |-> "read"]

\* redact_words prints the line with its redactions
PrintWithRedactions ==
  /\ redactor.status = "read"
  /\ LET line == print_with_redactions(
                   [text |-> redactor.text, reads |-> {}],
                   redactor.redacted_words, 1, redactor.outside)
     IN  redactor' = [redactor EXCEPT
                        !.text = line.text, !.reads = line.reads,
                        !.passes = Len(redactor.redacted_words),
                        !.status = "printed"]
  /\ UNCHANGED <<hash_map, current_size, number_of_items, status, last, live,
                 seen, frame, head, nodes, cipher, printed>>

\* the loop of redact_words goes on: read_line puts the next line of the
\* text file into the same buffer
ReadNextLine ==
  /\ redactor.status = "printed"
  /\ \E text \in read_line :
       redactor' = [redactor EXCEPT
                      !.text = text, !.original = text, !.passes = 0,
                      !.reads = {}, !.status = "read"]
  /\ UNCHANGED <<hash_map, current_size, number_of_items, status, last, live,
                 seen, frame, head, nodes, cipher, printed>>

\* read_line returns 0 at the end of the text file: the loop is left, the
\* line and the words are freed and the files closed
EndOfText ==
  /\ redactor.status = "printed"
  /\ redactor' = [redactor EXCEPT !.status = "closed"]
  /\ UNCHANGED <<hash_map, current_size, number_of_items, status, last, live,
                 seen, frame, head, nodes, cipher, printed>>

NextRedact == PrintWithRedactions \/ ReadNextLine \/ EndOfText

SpecRedact == InitRedact /\ [][NextRedact]_vars

(***************************************************************************)
(* The columnar transposition cipher of CWK2Q7.c.  The input file is the   *)
(* sequence of its chars, and an index counts from 0 as in the source.     *)
(***************************************************************************)
BLOCK_LENGTH_MULTIPLIER == 32

\* the most chars of the input file after its first ones
MaxFill == 88

\* the keys: "K", "KE", "EYE" and "KEYS"
CipherKeys == {<<75>>, <<75, 69>>, <<69, 89, 69>>, <<75, 69, 89, 83>>}

\* ATTACKATDAWN, the message of the file header
ExampleMessage == <<65, 84, 84, 65, 67, 75, 65, 84, 68, 65, 87, 78>>

\* the first chars of the input files: none, "-", "z0"
FirstChars == {<<>>, <<45>>, <<122, 48>>}

\* the chars that follow: "aB7-" over and over, cut after n chars
Fill(n) == [i \in 1..n |-> <<97, 66, 55, 45>>[((i - 1) % 4) + 1]]

\* the contents of the input files
Messages ==
  {first \o Fill(n) : first \in FirstChars, n \in 0..MaxFill}
    \cup {ExampleMessage}

\* a byte of the result that nothing has set: realloc adds such bytes, and
\* what one holds is whatever the heap held, any value of a byte.  It is no
\* value of a char, so it is never equal to a char or to the NUL.
Unset == 256

isalpha(character) == character \in 65..90 \/ character \in 97..122

isdigit(character) == character \in 48..57

toupper(character) ==
  IF character \in 97..122 THEN character - 32 ELSE character

is_alphanumeric(character) == isalpha(character) \/ isdigit(character)

RECURSIVE FillLoop(_, _, _, _, _)
\* the while loop of fill_with_text: the buffer, the chars left in the file,
\* and what is returned
FillLoop(input, length, buffer, items_filled, end_of_file_detected) ==
  IF items_filled >= length
  THEN [filled |-> TRUE, buffer |-> buffer, input |-> input]
  ELSE IF end_of_file_detected
  THEN FillLoop(input, length, [buffer EXCEPT ![items_filled + 1] = 88],
                items_filled + 1, TRUE)
  ELSE IF input = <<>>
  THEN IF items_filled = 0
       THEN [filled |-> FALSE, buffer |-> buffer, input |-> input]
       ELSE FillLoop(input, length, buffer, items_filled, TRUE)
  ELSE IF is_alphanumeric(Head(input))
  THEN FillLoop(Tail(input), length,
                [buffer EXCEPT ![items_filled + 1] = toupper(Head(input))],
                items_filled + 1, FALSE)
  ELSE FillLoop(Tail(input), length, buffer, items_filled, FALSE)

fill_with_text(input, length, buffer) ==
  FillLoop(input, length, buffer, 0, FALSE)

create_indexed_characters(key, key_length) ==
  [i \in 1..key_length |-> [character |-> key[i], index |-> i - 1]]

RECURSIVE ShiftRight(_, _, _)
\* the while loop of sort, and the insertion after it
ShiftRight(characters, compared_char_index, current_value) ==
  IF /\ compared_char_index >= 0
     /\ characters[compared_char_index + 1].character
          > current_value.character
  THEN ShiftRight([characters EXCEPT
                     ![compared_char_index + 2] =
                        characters[compared_char_index + 1]],
                  compared_char_index - 1, current_value)
  ELSE [characters EXCEPT ![compared_char_index + 2] = current_value]

RECURSIVE SortFrom(_, _, _)
\* the for loop of sort from current_char_index on
SortFrom(characters, number_of_characters, current_char_index) ==
  IF current_char_index >= number_of_characters THEN characters
  ELSE SortFrom(ShiftRight(characters, current_char_index - 1,
                           characters[current_char_index + 1]),
                number_of_characters, current_char_index + 1)

sort(characters, number_of_characters) ==
  SortFrom(characters, number_of_characters, 1)

get_sorted_column_positions(key, key_length) ==
  LET indexed_characters ==
        sort(create_indexed_characters(key, key_length), key_length)
  IN  [i \in 1..key_length |-> indexed_characters[i].index]

reorder_by_column_positions(char_array, positions) ==
  [i \in 1..Len(positions) |-> char_array[positions[i] + 1]]

\* calloc(n, sizeof(char))
Zeros(n) == [i \in 1..n |-> 0]

\* encrypt_columnar_from_file up to its loop
InitCipher ==
  /\ Statics
  /\ frame = NoFrame
  /\ redactor = NoLine
  /\ \E input \in Messages, key \in CipherKeys :
       LET key_length == Len(key)
           result_size == key_length * BLOCK_LENGTH_MULTIPLIER
       IN  cipher = [input |-> input, key |-> key, phase |-> "rows",
                     message |-> input,
                     positions |-> get_sorted_column_positions(key,
                                                               key_length),
                     row |-> Zeros(key_length),
                     chars_in_result |-> 0,
                     result_size |-> result_size,
                     result |-> Zeros(result_size + 1)]

\* the result after realloc: the bytes it had, then bytes that are not set
Realloc(result, size) ==
  [i \in 1..size |-> IF i <= Len(result) THEN result[i] ELSE Unset]

\* one turn of the loop: a row is filled, reordered and put into the result
EncryptRow ==
  /\ cipher.phase = "rows"
  /\ LET key_length == Len(cipher.key)
         filled == fill_with_text(cipher.input, key_length, cipher.row)
         row == reorder_by_column_positions(filled.buffer, cipher.positions)
         grows == cipher.chars_in_result + key_length >= cipher.result_size
         result_size ==
           IF grows
           THEN cipher.result_size + key_length * BLOCK_LENGTH_MULTIPLIER
           ELSE cipher.result_size
         result == IF grows
                   THEN Realloc(cipher.result, result_size + 1)
                   ELSE cipher.result
     IN  /\ filled.filled
         /\ cipher' = [cipher EXCEPT
               !.input = filled.input,
               !.row = row,
               !.result_size = result_size,
               !.result = [i \in 1..Len(result) |->
                             IF (i - 1) \in cipher.chars_in_result
                                  ..(cipher.chars_in_result + key_length - 1)
                             THEN row[i - cipher.chars_in_result]
                             ELSE result[i]],
               !.chars_in_result = @ + key_length]
  /\ UNCHANGED <<hash_map, current_size, number_of_items, status, last, live,
                 seen, frame, head, nodes, redactor,
                 printed>>

\* the file is at its end: the loop is left and the function returns
EncryptReturn ==
  /\ cipher.phase = "rows"
  /\ LET filled == fill_with_text(cipher.input, Len(cipher.key), cipher.row)
     IN  /\ ~filled.filled
         /\ cipher' = [cipher EXCEPT !.input = filled.input,
                                     !.phase = "returned"]
  /\ UNCHANGED <<hash_map, current_size, number_of_items, status, last, live,
                 seen, frame, head, nodes, redactor,
                 printed>>

NextCipher == EncryptRow \/ EncryptReturn

SpecCipher == InitCipher /\ [][NextCipher]_vars

(***************************************************************************)
(* Vocabulary of the properties.                                           *)
(***************************************************************************)
\* the names stored in a slot array
Stored(map) == {map[i].text : i \in Occupied(map)}

\* the table after a step
TableAfter == [map |-> hash_map', size |-> current_size',
               items |-> number_of_items', status |-> "ok"]

\* search_map(name) returns true
Found(t, name) == index_of(t, name) >= 0

\* search_map(name) returns false
NotFound(t, name) == index_of(t, name) = -1

RECURSIVE Reaches(_, _, _, _, _)
\* the walk from index meets slot target before it meets a NULL slot
Reaches(map, size, index, target, steps) ==
  IF steps >= size THEN FALSE
  ELSE IF index = target THEN TRUE
  ELSE IF map[index] = NULL THEN FALSE
  ELSE Reaches(map, size, next_index(index, size), target, steps + 1)

\* the load factor is above 0.7, as the claims state it
OverLoaded(items, size) == 10 * items > 7 * size

(***************************************************************************)
(* C1  Find-after-insert: once add_to_map(k) has returned, search_map(k)   *)
(* returns true at every later point up to the next remove_from_map(k).    *)
(***************************************************************************)
FindAfterInsert ==
  status = "ok" => \A name \in live : Found(Table, name)

(***************************************************************************)
(* C2  Search soundness: on an initialised table, search_map(k) returns    *)
(* false for every key text k that was never added, or was removed since   *)
(* it was last added.                                                      *)
(***************************************************************************)
SearchSoundness ==
  (status = "ok" /\ current_size >= 1)
    => \A name \in Keys \ live : NotFound(Table, name)

(***************************************************************************)
(* C3  Termination: every add_to_map, search_map and remove_from_map call  *)
(* on an initialised table returns.                                        *)
(***************************************************************************)
EveryCallReturns ==
  ~(status = "loops" /\ last.op \in {"insert", "search", "delete"})

(***************************************************************************)
(* C4  Count invariant: number_of_items equals the number of slots that    *)
(* hold a name, and is never negative.                                     *)
(***************************************************************************)
CountInvariant ==
  status = "ok" =>
    /\ number_of_items = Cardinality(Occupied(hash_map))
    /\ number_of_items >= 0

(***************************************************************************)
(* C5  Uniqueness: no two slots hold names of equal text.                  *)
(***************************************************************************)
Uniqueness ==
  \A i, j \in Occupied(hash_map) :
    hash_map[i].text = hash_map[j].text => i = j

\* add_to_map(k) has been called with k stored beyond a tombstone that sits
\* at k's hash index: the duplicate is only found by walking past it
UniquenessWitness ==
  /\ status = "ok"
  /\ last.op = "insert"
  /\ \E i \in Occupied(hash_map) :
       /\ hash_map[i].text = last.key
       /\ hash_map[hash_function(last.key, current_size)] = tombstone

(***************************************************************************)
(* C6  Load-factor ceiling: whenever add_to_map, remove_from_map or        *)
(* resize_map returns on a table of at least one slot,                     *)
(* 10 * number_of_items <= 7 * current_size.                               *)
(***************************************************************************)
LoadFactorCeiling ==
  (status = "ok" /\ current_size >= 1
     /\ last.op \in {"insert", "delete", "resize"})
    => ~OverLoaded(number_of_items, current_size)

(***************************************************************************)
(* C7  Probe-chain invariant: for every stored name, the walk from its     *)
(* hash index reaches its slot before it reaches a NULL slot.              *)
(***************************************************************************)
ProbeChain ==
  \A i \in Occupied(hash_map) :
    Reaches(hash_map, current_size,
            hash_function(hash_map[i].text, current_size), i, 0)

\* a remove_from_map has just left a tombstone at the hash index of a name
\* that is stored further along
ProbeChainWitness ==
  /\ status = "ok"
  /\ last.op = "delete"
  /\ last.ret = 1
  /\ \E i \in Occupied(hash_map) :
       LET h == hash_function(hash_map[i].text, current_size)
       IN  h # i /\ hash_map[h] = tombstone

(***************************************************************************)
(* C8  Hash range: for every key and every current_size >= 1,              *)
(* hash_function(key) is in 0..current_size-1.                             *)
(***************************************************************************)
HashRange ==
  (status = "ok" /\ last.op = "hash" /\ current_size >= 1)
    => last.ret \in 0..(current_size - 1)

(***************************************************************************)
(* C9  Resize rejection: resize_map(n) with n < 1, or with                 *)
(* number_of_items / n > 0.7, changes no slot, nor current_size, nor       *)
(* number_of_items.                                                        *)
(***************************************************************************)
ResizeRejection ==
  [][(last'.op = "resize"
        /\ (last'.n < 1 \/ OverLoaded(number_of_items, last'.n)))
       => /\ hash_map' = hash_map
          /\ current_size' = current_size
          /\ number_of_items' = number_of_items
          /\ status' = "ok"]_vars

\* resize_map(n) has returned from a call with number_of_items / n > 0.7 on
\* an initialised table, which still has its own size
ResizeRejectionWitness ==
  /\ status = "ok"
  /\ last.op = "resize"
  /\ last.n >= 1
  /\ current_size >= 1
  /\ current_size # last.n
  /\ OverLoaded(number_of_items, last.n)

(***************************************************************************)
(* C10  Resize preserves contents: an accepted resize_map(n) leaves        *)
(* number_of_items and the set of stored names unchanged, and search_map   *)
(* answers the same for every key before and after it.                     *)
(***************************************************************************)
ResizePreservesContents ==
  [][(last'.op = "resize" /\ current_size >= 1
        /\ last'.n >= 1 /\ ~OverLoaded(number_of_items, last'.n))
       => /\ status' = "ok"
          /\ number_of_items' = number_of_items
          /\ Stored(hash_map') = Stored(hash_map)
          /\ \A name \in Keys :
               Outcome(index_of(Table, name)) = "ok"
                 => (Found(TableAfter, name) <=> Found(Table, name))]_vars

\* the table is as it was before the step
TableUnchanged ==
  /\ hash_map' = hash_map
  /\ current_size' = current_size
  /\ number_of_items' = number_of_items

\* the sum of the character codes of a key
RECURSIVE CharSum(_)
CharSum(key) == IF key = <<>> THEN 0 ELSE Head(key) + CharSum(Tail(key))

(***************************************************************************)
(* C11  Delete of a stored key: remove_from_map(k) for a stored k returns  *)
(* 1, turns exactly the slot holding k into the tombstone, decrements      *)
(* number_of_items by 1 and leaves current_size and every other slot.      *)
(***************************************************************************)
DeleteOfStoredKey ==
  [][(last'.op = "delete" /\ last'.key \in Stored(hash_map))
       => /\ status' = "ok"
          /\ last'.ret = 1
          /\ current_size' = current_size
          /\ number_of_items' = number_of_items - 1
          /\ \E i \in Occupied(hash_map) :
               /\ hash_map[i].text = last'.key
               /\ hash_map' = [hash_map EXCEPT ![i] = tombstone]]_vars

(***************************************************************************)
(* C12  Delete of an absent key: on an initialised table,                  *)
(* remove_from_map(k) for a k that is not stored returns 0 and leaves      *)
(* every slot, number_of_items and current_size unchanged.                 *)
(***************************************************************************)
DeleteOfAbsentKey ==
  [][(last'.op = "delete" /\ current_size >= 1
        /\ last'.key \notin Stored(hash_map))
       => /\ status' = "ok"
          /\ last'.ret = 0
          /\ TableUnchanged]_vars

(***************************************************************************)
(* C13  Duplicate insert is a no-op: add_to_map(k) of a stored k leaves    *)
(* every slot, number_of_items and current_size unchanged.                 *)
(***************************************************************************)
DuplicateInsertNoOp ==
  [][(last'.op = "insert" /\ last'.key \in Stored(hash_map))
       => /\ status' = "ok"
          /\ TableUnchanged]_vars

(***************************************************************************)
(* C14  Growth policy: add_to_map(k) on a table of c >= 1 slots returns    *)
(* with current_size c or 2c; it is 2c exactly when k was newly added and  *)
(* the resulting number_of_items / c > 0.7.                                *)
(***************************************************************************)
GrowthPolicy ==
  [][(last'.op = "insert" /\ current_size >= 1 /\ status' = "ok")
       => /\ current_size' \in {current_size, 2 * current_size}
          /\ current_size' = 2 * current_size
               <=> /\ last'.key \notin Stored(hash_map)
                   /\ last'.key \in Stored(hash_map')
                   /\ OverLoaded(number_of_items', current_size)]_vars

(***************************************************************************)
(* C15  Lazy initialisation: add_to_map(k) on an uninitialised table       *)
(* returns with current_size 10, number_of_items 1 and k in the slot at    *)
(* index (sum of k's character codes) mod 10.                              *)
(***************************************************************************)
LazyInitialisation ==
  [][(last'.op = "insert" /\ current_size = 0)
       => /\ status' = "ok"
          /\ current_size' = 10
          /\ number_of_items' = 1
          /\ hash_map'[CharSum(last'.key) % 10] = NamePtr(last'.key)
          /\ Cardinality(Occupied(hash_map')) = 1]_vars

\* add_to_map has returned from a call made on the uninitialised table
LazyInitialisationWitness ==
  /\ status = "ok"
  /\ last.op = "insert"
  /\ seen.size = 0
  /\ current_size = 10
  /\ number_of_items = 1

(***************************************************************************)
(* C16  Tombstone reuse keeps count: for a stored k and a different k'     *)
(* that is not stored, remove_from_map(k) followed by add_to_map(k')       *)
(* leaves number_of_items and current_size as they were before the remove. *)
(***************************************************************************)
TombstoneReuseKeepsCount ==
  [][(last.op = "delete" /\ seen.held
        /\ last'.op = "insert" /\ last'.key # last.key
        /\ last'.key \notin Stored(hash_map))
       => /\ status' = "ok"
          /\ number_of_items' = seen.items
          /\ current_size' = seen.size]_vars

(***************************************************************************)
(* C18  Hash is never evaluated on an uninitialised table: no resize_map,  *)
(* add_to_map, search_map or remove_from_map call evaluates hash_function  *)
(* while current_size is 0.                                                *)
(***************************************************************************)
NoHashOnUninitialised == status # "fault"

(***************************************************************************)
(* C19  Capacity never returns to zero: once current_size is at least 1 no *)
(* call makes it 0 again, and it is at least 1 when add_to_map returns.    *)
(***************************************************************************)
CapacityNeverReturnsToZero ==
  [][/\ current_size >= 1 => current_size' >= 1
     /\ (last'.op = "insert" /\ status' = "ok") => current_size' >= 1]_vars

\* resize_map(0) has returned on an initialised table
CapacityNeverReturnsToZeroWitness ==
  /\ status = "ok"
  /\ last.op = "resize"
  /\ last.n = 0
  /\ seen.size >= 1
  /\ current_size >= 1

(***************************************************************************)
(* C17  Concrete scenario: for any five distinct keys k1..k5, resize(6)    *)
(* gives 6 slots and count 0; after insert k1, k2, k1, k3, k4 the count is *)
(* 4 with 6 slots; after insert k5 there are 12 slots and count 5;         *)
(* search(k1) is true; delete(k3) is true with count 4; search(k5) is      *)
(* true; insert(k3) gives count 5 with 12 slots and k3 in the slot that    *)
(* delete(k3) turned into the tombstone.                                   *)
(***************************************************************************)
ConcreteScenario ==
  [][(frame'.pc = frame.pc + 1 /\ frame'.pc <= 14)
       => /\ status' = "ok"
          /\ frame'.pc = 1
               => current_size' = 6 /\ number_of_items' = 0
          /\ frame'.pc = 6
               => current_size' = 6 /\ number_of_items' = 4
          /\ frame'.pc = 7
               => current_size' = 12 /\ number_of_items' = 5
          /\ frame'.pc = 9
               => last'.ret = 1
          /\ frame'.pc = 10
               => last'.ret = 1 /\ number_of_items' = 4
          /\ frame'.pc = 11
               => last'.ret = 1
          /\ frame'.pc = 13
               => /\ current_size' = 12 /\ number_of_items' = 5
                  /\ \E i \in DOMAIN hash_map :
                       /\ hash_map[i] = tombstone
                       /\ hash_map'[i] = NamePtr(frame.strings[3])]_vars

\* the index of the first element of seq equal to target, 0 if there is none
First(seq, target) ==
  IF \E i \in 1..Len(seq) : seq[i] = target
    THEN CHOOSE i \in 1..Len(seq) :
           seq[i] = target /\ \A j \in 1..(i - 1) : seq[j] # target
    ELSE 0

\* seq with value put in as its i-th element
InsertAt(seq, i, value) ==
  SubSeq(seq, 1, i - 1) \o <<value>> \o SubSeq(seq, i, Len(seq))

\* seq without its i-th element
RemoveAt(seq, i) == SubSeq(seq, 1, i - 1) \o SubSeq(seq, i + 1, Len(seq))

\* the sequence, return value and result that call leaves of the sequence seq
Reference(call, seq) ==
  LET i == First(seq, call.target)
      Same == [seq |-> seq, ret |-> 0, result |-> <<>>]
  IN  CASE call.op = "insert_string" ->
             [seq |-> <<call.value>> \o seq, ret |-> 0, result |-> <<>>]
        [] call.op = "insert_before" ->
             IF i = 0 THEN Same
             ELSE [seq |-> InsertAt(seq, i, call.value), ret |-> 1,
                   result |-> <<>>]
        [] call.op = "insert_after" ->
             IF i = 0 THEN Same
             ELSE [seq |-> InsertAt(seq, i + 1, call.value), ret |-> 1,
                   result |-> <<>>]
        [] call.op = "remove_string" ->
             IF i = 0 THEN Same
             ELSE [seq |-> RemoveAt(seq, i), ret |-> 1, result |-> <<>>]
        [] call.op = "remove_after" ->
             IF i = 0 \/ i = Len(seq) THEN Same
             ELSE [seq |-> RemoveAt(seq, i + 1), ret |-> 1,
                   result |-> seq[i + 1]]
        [] call.op = "remove_before" ->
             IF i <= 1 THEN Same
             ELSE [seq |-> RemoveAt(seq, i - 1), ret |-> 1,
                   result |-> seq[i - 1]]
        [] OTHER -> Same

(***************************************************************************)
(* C20  XOR list matches a sequence model: every call leaves the list      *)
(* whose head-to-tail traversal is what the same call leaves of the        *)
(* traversal before it, taken as a plain sequence: insert_string prepends, *)
(* insert_before and insert_after insert next to the first element equal   *)
(* to the target, remove_string deletes the first equal element,           *)
(* remove_after and remove_before delete the neighbour of the first equal  *)
(* element and report its value; each returns 0 and leaves the sequence    *)
(* unchanged when the target is absent or has no neighbour on that side.   *)
(***************************************************************************)
ListMatchesSequence ==
  [][LET ref == Reference(last', print_list(head, nodes))
     IN  /\ status' = "ok"
         /\ print_list(head', nodes') = ref.seq
         /\ last'.ret = ref.ret
         /\ last'.result = ref.result]_vars

(***************************************************************************)
(* C23  Tombstones never match: the walk of search_map and remove_from_map *)
(* never returns the index of a tombstone slot, and the duplicate test of  *)
(* add_to_map never takes a tombstone for the name, so a name that is not  *)
(* stored is stored once add_to_map returns -- for every name, the one     *)
(* whose text is that of the sentinel included.                            *)
(***************************************************************************)
TombstonesNeverMatch ==
  [][/\ (last'.op \in {"search", "delete"} /\ current_size >= 1)
          => LET index == index_of(Table, last'.key)
             IN  index >= 0 => hash_map[index] # tombstone
     /\ (last'.op = "insert" /\ status' = "ok")
          => last'.key \in Stored(hash_map')]_vars

(***************************************************************************)
(* C24  Room to insert: in every state with current_size >= 1 at least one *)
(* slot is NULL.                                                           *)
(***************************************************************************)
RoomToInsert ==
  (status = "ok" /\ current_size >= 1)
    => \E i \in DOMAIN hash_map : hash_map[i] = NULL

\* the slot of map that is offset slots after the hash index of name
Probe(map, size, name, offset) == map[(CharSum(name) + offset) % size]

\* the index where a name that is not stored belongs: the first tombstone
\* before the first NULL slot of its walk, or else that NULL slot
Placement(map, size, name) ==
  LET end == CHOOSE d \in 0..(size - 1) :
               /\ Probe(map, size, name, d) = NULL
               /\ \A e \in 0..(d - 1) : Probe(map, size, name, e) # NULL
      tombs == {e \in 0..(end - 1) : Probe(map, size, name, e) = tombstone}
      first == IF tombs = {} THEN end
               ELSE CHOOSE e \in tombs : \A f \in tombs : e <= f
  IN  (CharSum(name) + first) % size

(***************************************************************************)
(* C25  Insert placement: an add_to_map that does not grow the table, of a *)
(* name that is not stored, writes exactly one slot and increments         *)
(* number_of_items by 1; the slot is the first tombstone met on the walk   *)
(* from the hash index before the first NULL slot if there is one, else    *)
(* that NULL slot; every other slot is unchanged.                          *)
(***************************************************************************)
InsertPlacement ==
  [][(last'.op = "insert" /\ current_size >= 1
        /\ (status' = "ok" => current_size' = current_size)
        /\ last'.key \notin Stored(hash_map))
       => /\ status' = "ok"
          /\ number_of_items' = number_of_items + 1
          /\ \E i \in DOMAIN hash_map : hash_map[i] = NULL
          /\ hash_map' =
               [hash_map EXCEPT
                  ![Placement(hash_map, current_size, last'.key)] =
                     NamePtr(last'.key)]]_vars

\* the step is a call that is not an accepted resize and does not grow the
\* table
KeepsTheSlots ==
  /\ last'.op \in {"insert", "delete", "search", "resize"}
  /\ current_size >= 1
  /\ current_size' = current_size
  /\ last'.op = "resize" => ResizeRejected(Table, last'.n)

(***************************************************************************)
(* C26  Slot state machine: in a step of remove_from_map, or of an         *)
(* add_to_map that does not grow the table, each slot keeps its state or   *)
(* goes NULL -> name or tombstone -> name (add) or name -> tombstone       *)
(* (remove); no slot becomes NULL, no name is overwritten by another name, *)
(* and search_map and a rejected resize_map change no slot.                *)
(***************************************************************************)
SlotStateMachine ==
  [][KeepsTheSlots
       => \A i \in DOMAIN hash_map :
            \/ hash_map'[i] = hash_map[i]
            \/ /\ last'.op = "insert"
               /\ hash_map[i] \in {NULL, tombstone}
               /\ hash_map'[i] = NamePtr(last'.key)
            \/ /\ last'.op = "delete"
               /\ hash_map[i] \notin {NULL, tombstone}
               /\ hash_map'[i] = tombstone]_vars

\* remove_from_map has turned the slot of a stored name into the tombstone
SlotStateMachineWitness ==
  /\ status = "ok"
  /\ last.op = "delete"
  /\ last.ret = 1
  /\ seen.held
  /\ last.key \notin Stored(hash_map)
  /\ number_of_items = seen.items - 1
  /\ \E i \in DOMAIN hash_map : hash_map[i] = tombstone

\* the step is a resize_map that is accepted, or an add_to_map that grows
\* the table, and the call returns
Rebuilds(n) ==
  /\ status' = "ok"
  /\ \/ /\ last'.op = "resize"
        /\ last'.n = n
        /\ ~ResizeRejected(Table, n)
     \/ /\ last'.op = "insert"
        /\ current_size >= 1
        /\ current_size' # current_size
        /\ n = 2 * current_size

(***************************************************************************)
(* C27  Post-resize shape: right after an accepted resize to n slots,      *)
(* current_size is n, no slot is the tombstone, exactly number_of_items    *)
(* slots hold a name and the other n - number_of_items slots are NULL.     *)
(***************************************************************************)
PostResizeShape ==
  [][\A n \in 1..(2 * DEFAULT_SIZE) :
       Rebuilds(n)
         => /\ current_size' = n
            /\ DOMAIN hash_map' = 0..(n - 1)
            /\ \A i \in DOMAIN hash_map' : hash_map'[i] # tombstone
            /\ Cardinality(Occupied(hash_map')) = number_of_items'
            /\ Cardinality({i \in DOMAIN hash_map' : hash_map'[i] = NULL})
                 = n - number_of_items']_vars

\* an accepted resize_map has rebuilt a table that held names
PostResizeShapeWitness ==
  /\ status = "ok"
  /\ last.op = "resize"
  /\ last.n = current_size
  /\ seen.size >= 1
  /\ seen.size # current_size
  /\ number_of_items >= 2

(***************************************************************************)
(* C28  No nested resize: a resize call, explicit or made by add_to_map to *)
(* grow, leaves exactly the size it was called with, however loaded the    *)
(* table it ends with: the re-insertion of the old names never triggers    *)
(* another resize.                                                         *)
(***************************************************************************)
NoNestedResize ==
  [][/\ \A n \in 1..MaxResize :
          (last'.op = "resize" /\ last'.n = n /\ status' = "ok"
             /\ ~ResizeRejected(Table, n))
            => current_size' = n
     /\ (last'.op = "insert" /\ status' = "ok" /\ current_size >= 1)
          => current_size' \in {current_size, 2 * current_size}]_vars

\* an accepted resize_map has returned with a table above the load factor
NoNestedResizeWitness ==
  /\ status = "ok"
  /\ last.op = "resize"
  /\ last.n = current_size
  /\ OverLoaded(number_of_items, current_size)

\* the i-th address of a walk, 0 (NULL) before its start and after its end
At(walk, i) == IF i \in 1..Len(walk) THEN walk[i] ELSE 0

(***************************************************************************)
(* C29  XOR link integrity: head is NULL exactly when no node is           *)
(* allocated; the walk from head visits every allocated node exactly once, *)
(* never memory that holds no node, and ends at NULL; the npx of every     *)
(* node is the XOR of the addresses of the nodes before and after it, NULL *)
(* taken as 0, so the npx of head is the address of its successor.         *)
(***************************************************************************)
LinkIntegrity ==
  LET walk == Visited(nodes, 0, head)
  IN  /\ status # "wild"
      /\ head = 0 <=> DOMAIN nodes = {}
      /\ \A i \in 1..Len(walk) : walk[i] \in DOMAIN nodes
      /\ {walk[i] : i \in 1..Len(walk)} = DOMAIN nodes
      /\ Len(walk) = Cardinality(DOMAIN nodes)
      /\ \A i \in 1..Len(walk) :
           walk[i] \in DOMAIN nodes
             => nodes[walk[i]].npx = xor(At(walk, i - 1), At(walk, i + 1))
      /\ head # 0 => nodes[head].npx = At(walk, 2)

\* remove_after has taken a node out of a list of three, and the two nodes
\* left are not at the addresses malloc gave out first
LinkIntegrityWitness ==
  /\ status = "ok"
  /\ last.op = "remove_after"
  /\ last.ret = 1
  /\ Cardinality(DOMAIN nodes) = 2
  /\ DOMAIN nodes # {1, 2}
  /\ nodes[head].npx # 0


\* the indexes, from 0, of the maximal run of alphabetic chars around index
Run(text, index) ==
  {j \in 0..(Len(text) - 1) :
     \A k \in 0..(Len(text) - 1) :
        ((j <= k /\ k <= index) \/ (index <= k /\ k <= j))
          => is_alphabetic(text[k + 1])}

\* the run is the word, ignoring case
RunIs(text, run, word) ==
  /\ Cardinality(run) = Len(word)
  /\ \A j \in run :
       LET first == CHOOSE f \in run : \A g \in run : f <= g
       IN  to_lower_case(text[j + 1]) = to_lower_case(word[j - first + 1])

\* the line with a star for every char of the runs that are redacted words
Redacted(text, words) ==
  [i \in 1..Len(text) |->
     IF /\ is_alphabetic(text[i])
        /\ \E w \in 1..Len(words) : RunIs(text, Run(text, i - 1), words[w])
     THEN 42 ELSE text[i]]

(* C21: when a line has been printed, every maximal run of alphabetic     *)
(* chars that equals a redacted word ignoring case, at index 0 and at the *)
(* end of the line too, is as many stars, and every other char is as it   *)
(* was read.  Violated: a letter read in front of the buffer (C30) keeps  *)
(* the word at index 0, and a phrase is redacted with its separators.     *)
WholeWordRedaction ==
  redactor.status = "printed"
    => redactor.text = Redacted(redactor.original, redactor.redacted_words)

(* C30: while a line of length L is redacted, every index of the text     *)
(* that is read lies in 0..L.  Violated: the look at the char before a    *)
(* match at index 0 reads text[start_index - 1], in front of the buffer.  *)
RedactionInBounds ==
  \A index \in redactor.reads : index \in 0..Len(redactor.original)


\* the string at result, as printf("%s") reads it: the bytes before the
\* first NUL.  Where a byte that is not set comes before any NUL the string
\* is not the program's to tell: it is given up to that byte, Unset at its
\* end for what the heap held there and after.
ResultString(result) ==
  LET end == CHOOSE i \in 1..Len(result) :
               /\ result[i] \in {0, Unset}
               /\ \A j \in 1..(i - 1) : result[j] \notin {0, Unset}
  IN  IF result[end] = 0 THEN SubSeq(result, 1, end - 1)
      ELSE SubSeq(result, 1, end)

\* the alphanumeric chars of the message, in upper case
Kept(message) ==
  LET kept == SelectSeq(message, is_alphanumeric)
  IN  [i \in 1..Len(kept) |-> toupper(kept[i])]

\* padded with X to the next multiple of the key length
Padded(message, key_length) ==
  LET kept == Kept(message)
      rows == (Len(kept) + key_length - 1) \div key_length
  IN  [i \in 1..(rows * key_length) |->
         IF i <= Len(kept) THEN kept[i] ELSE 88]

\* the column, from 0, of the i-th key letter in alphabetical order, equal
\* letters in the order of the key
ColumnOf(key, i) ==
  CHOOSE c \in 0..(Len(key) - 1) :
    Cardinality({d \in 0..(Len(key) - 1) :
                   \/ key[d + 1] < key[c + 1]
                   \/ (key[d + 1] = key[c + 1] /\ d < c)}) = i

\* the rows of the padded message, each with its columns reordered
Ciphertext(message, key) ==
  LET padded == Padded(message, Len(key))
  IN  [i \in 1..Len(padded) |->
         LET row == (i - 1) \div Len(key)
         IN  padded[(row * Len(key)) + ColumnOf(key, (i - 1) % Len(key)) + 1]]

(* C22: when the encryption has returned, the result is the message's     *)
(* alphanumeric chars in upper case, padded with X to a multiple of the   *)
(* key length, each row with position i holding the char of the column of *)
(* the i-th key letter in alphabetical order.  Violated: from the 33rd    *)
(* row on the chars are followed by what the heap held, not a NUL (C31).  *)
ColumnarOutput ==
  cipher.phase = "returned"
    => ResultString(cipher.result) = Ciphertext(cipher.message, cipher.key)


(* C31: when the encryption has returned with n chars written, the bytes  *)
(* result[0..n-1] are the ciphertext and result[n] is the NUL, for every  *)
(* length of input, the ones that make the buffer grow included.          *)
(* Violated: the bytes realloc adds are never set, so from the 33rd row   *)
(* on result[n] is what the heap held.                                    *)
TerminatedString ==
  cipher.phase = "returned"
    => /\ SubSeq(cipher.result, 1, cipher.chars_in_result)
            = Ciphertext(cipher.message, cipher.key)
       /\ cipher.result[cipher.chars_in_result + 1] = 0


(* C32  Search is read-only: a call of search_map on an initialised table, *)
(* for every key, leaves every slot, number_of_items and current_size as   *)
(* they were, whether it finds the key or not.                             *)
SearchIsReadOnly ==
  [][(last'.op = "search" /\ current_size >= 1) => TableUnchanged]_vars

\* a search has found its key in a table that also holds a tombstone and
\* another name
SearchIsReadOnlyWitness ==
  /\ last.op = "search"
  /\ status = "ok"
  /\ last.ret = 1
  /\ last.key \in Stored(hash_map)
  /\ Cardinality(Occupied(hash_map)) >= 2
  /\ \E i \in DOMAIN hash_map : hash_map[i] = tombstone


(* C33  Enumeration is a bounded read-only scan: print_map changes no      *)
(* slot, number_of_items or current_size, reads only slot indexes in       *)
(* 0..current_size-1, and visits each once in increasing order, for every  *)
(* current_size, 0 included.  Violated: with current_size 0 it reads index *)
(* -1 of a hash_map that is NULL.                                          *)
BoundedReadOnlyScan ==
  [][last'.op = "print"
       => /\ TableUnchanged
          /\ printed'.reads = [i \in 1..current_size |-> i - 1]]_vars

====
